---- MODULE Spec2Model ----
(***************************************************************************)
(* A model of msr605.py: the MSR605 serial session (class MSR605) and the  *)
(* ISO 7811-2 track codec (class ISO7811_2).                                *)
(*                                                                         *)
(* Python 2 byte strings are sequences of integers 0..255.  The serial     *)
(* input is a stream of bytes in which the marker TIMEOUT stands for a     *)
(* pause longer than the port's timeout: a read that meets it returns the  *)
(* bytes it has so far.  A read at the end of the stream times out too.    *)
(***************************************************************************)
EXTENDS Integers, Sequences, FiniteSets, TLC

\* ------------------------------------------------------------ bounds
MaxLen == 2          \* longest enumerated raw payload / text body
MaxTimeouts == 3     \* the count of timed-out reads in _read_until saturates here

\* ------------------------------------------------------------ constants
ESC_CHR == 27
FS_CHR == 28
TIMEOUT == 256

TRACK1_CHARS ==
    << 32, 33, 34, 35, 36, 37, 38, 39, 40, 41, 42, 43, 96, 44, 46, 47,
       48, 49, 50, 51, 52, 53, 54, 55, 56, 57, 58, 59, 60, 61, 62, 63,
       64, 65, 66, 67, 68, 69, 70, 71, 72, 73, 74, 75, 76, 77, 78, 79,
       80, 81, 82, 83, 84, 85, 86, 87, 88, 89, 90, 91, 92, 93, 94, 95 >>

TRACK23_CHARS ==
    << 48, 49, 50, 51, 52, 53, 54, 55, 56, 57, 58, 59, 60, 61, 62, 63 >>

\* (start sentinel, end sentinel) per track: ('%','?'), (';','?'), (';','?')
TRACK_SENTINELS == << <<37, 63>>, <<59, 63>>, <<59, 63>> >>

\* ------------------------------------------------------------ integers as bits
Min(a, b) == IF a < b THEN a ELSE b

Pow2(n) == IF n = 0 THEN 1 ELSE 2 ^ n

\* (value >> i) & 1
Bit(value, i) == (value \div Pow2(i)) % 2

RECURSIVE SumBits(_, _)
SumBits(value, nbits) ==
    IF nbits = 0 THEN 0 ELSE Bit(value, nbits - 1) + SumBits(value, nbits - 1)

RECURSIVE Xor(_, _)
Xor(a, b) ==
    IF a = 0 /\ b = 0 THEN 0
    ELSE (((a % 2) + (b % 2)) % 2) + 2 * Xor(a \div 2, b \div 2)

Range(s) == {s[i] : i \in 1..Len(s)}

\* ------------------------------------------------------------ ISO7811_2
\* ISO7811_2._reverse_bits(value, nbits)
RECURSIVE ISO_reverse_bits(_, _)
ISO_reverse_bits(value, nbits) ==
    IF nbits = 0 THEN 0
    ELSE Bit(value, nbits - 1) + 2 * ISO_reverse_bits(value % Pow2(nbits - 1), nbits - 1)

\* _with_parity with the test inverted (== 0 for != 0): even parity
with_parity_even(value, nbits) ==
    IF SumBits(value, nbits) % 2 = 0 THEN value
    ELSE IF Bit(value, nbits - 1) = 1 THEN value
    ELSE value + Pow2(nbits - 1)

\* ISO7811_2._with_parity(value, nbits): value | (1 << (nbits - 1)) unless the
\* low nbits bits of value already hold an odd number of ones.
with_parity(value, nbits) ==
    IF SumBits(value, nbits) % 2 # 0 THEN value
    ELSE IF Bit(value, nbits - 1) = 1 THEN value
    ELSE value + Pow2(nbits - 1)

\* mapping.index(c): 0-based position of the first occurrence, -1 for the
\* ValueError str.index raises when c is absent.
index(mapping, c) ==
    IF c \in Range(mapping)
    THEN (CHOOSE i \in 1..Len(mapping) :
              mapping[i] = c /\ \A j \in 1..(i - 1) : mapping[j] # c) - 1
    ELSE -1

RECURSIVE lrc_of(_, _)
lrc_of(data, mapping) ==
    IF data = <<>> THEN 0
    ELSE Xor(lrc_of(SubSeq(data, 1, Len(data) - 1), mapping),
             index(mapping, data[Len(data)]))

\* _iso_encode_data with the LRC unit yielded from inside the loop, before the
\* last character is folded in
iso_encode_data_early_lrc(data, mapping, nbits) ==
    IF \E i \in 1..Len(data) : index(mapping, data[i]) = -1
    THEN [exc |-> "ValueError", enc |-> <<>>]
    ELSE [exc |-> "none",
          enc |-> [i \in 1..Len(data) |-> with_parity(index(mapping, data[i]), nbits)]
                  \o << with_parity(lrc_of(SubSeq(data, 1, Len(data) - 1), mapping), nbits) >>]

\* ISO7811_2._iso_encode_data(data, mapping, nbits): map(mapping.index, data)
\* is evaluated first and raises ValueError on a foreign character; otherwise
\* one unit per character and then the LRC unit.
iso_encode_data(data, mapping, nbits) ==
    IF \E i \in 1..Len(data) : index(mapping, data[i]) = -1
    THEN [exc |-> "ValueError", enc |-> <<>>]
    ELSE [exc |-> "none",
          enc |-> [i \in 1..Len(data) |-> with_parity(index(mapping, data[i]), nbits)]
                  \o << with_parity(lrc_of(data, mapping), nbits) >>]

\* ISO7811_2._iso_decode_data(data, mapping, nbits)
iso_decode_data(data, mapping, nbits) ==
    [i \in 1..Len(data) |->
        mapping[ISO_reverse_bits(data[i] \div 2, nbits - 1) + 1]]

encode_track1(data) == iso_encode_data(data, TRACK1_CHARS, 7)

encode_track23(data) == iso_encode_data(data, TRACK23_CHARS, 5)

decode_track1(data) == iso_decode_data(data, TRACK1_CHARS, 7)

decode_track23(data) == iso_decode_data(data, TRACK23_CHARS, 5)

\* codecs lookup 'iso7811-2-track%d' % tn
codec_encode(tn, data) == IF tn = 1 THEN encode_track1(data) ELSE encode_track23(data)

codec_decode(tn, data) == IF tn = 1 THEN decode_track1(data) ELSE decode_track23(data)

\* ------------------------------------------------------------ state
VARIABLES
    sess,       \* the session: the port's input buffer and the call in flight
    op,         \* the operation in flight or last ended
    args,       \* its arguments
    script      \* the device's replies to its commands, one stream per command

VARIABLES
    fn,         \* pure functions: the codec name, or "frame" for the raw block
    xin,        \* the input: a track text, or three raw tracks
    xmid,       \* its encoded / framed form
    xout,       \* the decoded / parsed form
    xpc         \* "new", "encoded", "decoded", or the exception raised

svars == <<sess, op, args, script>>

pvars == <<fn, xin, xmid, xout, xpc>>

vars == <<sess, op, args, script, fn, xin, xmid, xout, xpc>>

\* ------------------------------------------------------------ serial.Serial
\* One transport call: k is its kind, n the byte count asked for, b the bytes
\* written or read, e the bytes _expect compared with.
Event(k, n, b, e) == [k |-> k, n |-> n, b |-> b, e |-> e]

\* The session as an operation starts:
\*   inbuf    the serial input not yet read (bytes and TIMEOUT markers)
\*   replies  the streams the device will answer the coming commands with
\*   log      the transport calls of the operation
\*   exc      the exception that ended it, "none" if none
\*   got      what the last read returned
\*   status   what _read_status last returned
\*   ret      what the operation returns (a sequence of byte strings)
\*   pc       "idle", or the _read_until loop that _read_iso_native is in
\*   data     _read_until's accumulator
\*   timeouts timed-out reads of the running _read_until (saturating)
Session(in, replies) ==
    [inbuf |-> in, replies |-> replies, log |-> <<>>, exc |-> "none",
     got |-> <<>>, status |-> <<>>, ret |-> <<>>,
     pc |-> "idle", data |-> <<>>, timeouts |-> 0]

\* An exception ends the operation: nothing is returned.
raise(st, e) ==
    IF st.exc # "none" THEN st ELSE [st EXCEPT !.exc = e, !.ret = <<>>, !.pc = "idle"]

\* How many bytes a read of n gets: all n, or those ahead of the first pause.
Arrived(s, n) ==
    LET m == Min(n, Len(s))
        pauses == {i \in 1..m : s[i] = TIMEOUT}
    IN  IF pauses = {} THEN m
        ELSE (CHOOSE i \in pauses : \A j \in pauses : i <= j) - 1

\* serial.Serial.read(n): blocks until n bytes or the timeout; st.got is the result.
read_as(st, n, kind, expected) ==
    IF st.exc # "none" THEN st
    ELSE LET s == st.inbuf
             k == Arrived(s, n)
             got == SubSeq(s, 1, k)
             rest == IF k < n /\ k < Len(s)
                     THEN SubSeq(s, k + 2, Len(s))
                     ELSE SubSeq(s, k + 1, Len(s))
         IN  [st EXCEPT !.inbuf = rest, !.got = got,
                        !.log = Append(@, Event(kind, n, got, expected))]

read(st, n) == read_as(st, n, "read", <<>>)

\* serial.Serial.write(data) and the device's answer to it: the next stream
\* of the script follows the bytes still in the input buffer, if any.
write(st, bytes) ==
    IF st.exc # "none" THEN st
    ELSE [st EXCEPT !.log = Append(@, Event("write", Len(bytes), bytes, <<>>)),
                    !.inbuf = @ \o (IF st.replies = <<>> THEN <<>> ELSE Head(st.replies)),
                    !.replies = IF st.replies = <<>> THEN <<>> ELSE Tail(st.replies)]

\* serial.Serial.flushInput()
flushInput(st) ==
    IF st.exc # "none" THEN st
    ELSE [st EXCEPT !.inbuf = <<>>,
                    !.log = Append(@, Event("flushInput", 0, <<>>, <<>>))]

\* ------------------------------------------------------------ MSR605 helpers
\* _expect with the raise left out
expect_lenient(st, bytes) == read_as(st, Len(bytes), "expect", bytes)

\* MSR605._expect(data)
expect(st, bytes) ==
    LET r == read_as(st, Len(bytes), "expect", bytes)
    IN  IF r.exc = "none" /\ r.got # bytes THEN raise(r, "ReadError") ELSE r

\* The table with the entry of '\x34' a copy of the one above it
status_exception_copied(b) ==
    CASE b = 49 -> "ReadWriteError"
      [] b = 50 -> "CommandFormatError"
      [] b = 52 -> "CommandFormatError"
      [] b = 57 -> "InvalidCardSwipeForWrite"
      [] b = 65 -> "SetError"
      [] OTHER -> "none"

\* The exceptions table of MSR605._read_status.
status_exception(b) ==
    CASE b = 49 -> "ReadWriteError"
      [] b = 50 -> "CommandFormatError"
      [] b = 52 -> "InvalidCommand"
      [] b = 57 -> "InvalidCardSwipeForWrite"
      [] b = 65 -> "SetError"
      [] OTHER -> "none"

\* MSR605._read_status(): a status outside the table, the empty string of a
\* timed-out read included, is returned.
read_status(st) ==
    LET r == read(expect(st, <<ESC_CHR>>), 1)
    IN  IF r.exc # "none" THEN r
        ELSE IF Len(r.got) = 1 /\ status_exception(r.got[1]) # "none"
             THEN raise(r, status_exception(r.got[1]))
             ELSE [r EXCEPT !.status = r.got]

\* MSR605._send_command(command, *args).  flushOutput() and flush() act on
\* the output buffer, which write() here hands to the device at once.
send_command(st, command) ==
    write(flushInput(st), <<ESC_CHR>> \o command)

\* chr(x): a ValueError outside range(256)
chr_ok(x) == x \in 0..255

\* ------------------------------------------------------------ statements
\* An operation is the sequence of its statements; run executes them in order
\* and stops at the first exception.  i is the statement, b its bytes, n a number.
Stmt(i, b, n) == [i |-> i, b |-> b, n |-> n]

Send(command) == Stmt("send_command", command, 0)

Expect(bytes) == Stmt("expect", bytes, 0)

ReadStatus == Stmt("read_status", <<>>, 0)

\* x = self.read(n), x being (part of) what the operation returns
ReadValue(n) == Stmt("read", <<>>, n)

\* ord(self.read(1)), the value being part of what the operation returns
ReadOrd == Stmt("ord_read", <<>>, 1)

\* if self.read(2) != reply: raise MSRException
Test(reply) == Stmt("test", reply, 2)

\* str_len = ord(self.read(1))
StrLen == Stmt("str_len", <<>>, 1)

\* yield self.read(str_len)
YieldRead == Stmt("yield_read", <<>>, 0)

Raise(e) == Stmt(e, <<>>, 0)

\* self._clean_iso_track_data(tracks)
Clean == Stmt("clean_iso_track_data", <<>>, 0)

\* track.decode('iso7811-2-track%d') of each track read
DecodeTracks == Stmt("decode", <<>>, 0)

yield(st, v) == IF st.exc # "none" THEN st ELSE [st EXCEPT !.ret = Append(@, v)]

\* MSR605.sensor_test / communication_test / ram_test after the command
test_reply(st, reply) ==
    LET r == read(st, 2)
    IN  IF r.exc = "none" /\ r.got # reply THEN raise(r, "MSRException") ELSE r

\* ord(self.read(1)): ord('') of a timed-out read is a TypeError
ord_read(st) ==
    LET r == read(st, 1)
    IN  IF r.exc = "none" /\ r.got = <<>> THEN raise(r, "TypeError") ELSE r

\* yield self.read(str_len), str_len being the byte just read
yield_read(st) ==
    LET r == read(st, st.got[1])
    IN  yield(r, r.got)

\* MSR605._clean_iso_track_data(tracks): the def has no self parameter, so
\* the call self._clean_iso_track_data(tracks) passes two arguments to a
\* function of one and raises TypeError before its body runs.
clean_iso_track_data(st) == raise(st, "TypeError")

\* MSR605._read_iso_soft: the list of the decoded tracks
decode_tracks(st) ==
    IF st.exc # "none" THEN st
    ELSE [st EXCEPT !.ret = [tn \in 1..Len(st.ret) |-> codec_decode(tn, st.ret[tn])]]

step(st, s) ==
    CASE s.i = "send_command" -> send_command(st, s.b)
      [] s.i = "expect" -> expect(st, s.b)
      [] s.i = "read_status" -> read_status(st)
      [] s.i = "read" -> LET r == read(st, s.n) IN yield(r, r.got)
      [] s.i = "ord_read" -> LET r == ord_read(st) IN yield(r, r.got)
      [] s.i = "test" -> test_reply(st, s.b)
      [] s.i = "str_len" -> ord_read(st)
      [] s.i = "yield_read" -> yield_read(st)
      [] s.i = "clean_iso_track_data" -> clean_iso_track_data(st)
      [] s.i = "decode" -> decode_tracks(st)
      [] s.i = "read_until" -> [st EXCEPT !.pc = "track1"]
      [] OTHER -> raise(st, s.i)

RECURSIVE run(_, _)
run(st, stmts) ==
    IF stmts = <<>> \/ st.exc # "none" THEN st
    ELSE run(step(st, Head(stmts)), Tail(stmts))

\* ------------------------------------------------------------ MSR605 operations
all_leds_off == << Send(<<129>>) >>

all_leds_on == << Send(<<130>>) >>

led_green_on == << Send(<<131>>) >>

led_yellow_on == << Send(<<132>>) >>

led_red_on == << Send(<<133>>) >>

sensor_test == << Send(<<134>>), Test(<<ESC_CHR, 48>>) >>

communication_test == << Send(<<101>>), Test(<<ESC_CHR, 121>>) >>

ram_test == << Send(<<135>>), Test(<<ESC_CHR, 48>>) >>

reset == << Send(<<97>>) >>

\* read_tracks with the track number of enumerate(): 0, 1, 2
read_track_from_zero(tn) == << Expect(<<ESC_CHR, tn - 1>>), StrLen, YieldRead >>

\* read_raw.read_tracks, one turn of the generator (tn = 1, 2, 3)
read_track(tn) == << Expect(<<ESC_CHR, tn>>), StrLen, YieldRead >>

\* MSR605.read_raw(): what read_tracks yields is the tuple returned
read_raw ==
    << Send(<<109>>), Expect(<<ESC_CHR, 115>>) >>
    \o read_track(1) \o read_track(2) \o read_track(3)
    \o << Expect(<<63, FS_CHR>>), ReadStatus >>

get_device_model ==
    << Send(<<116>>), Expect(<<ESC_CHR>>), ReadValue(1), Expect(<<83>>) >>

get_firmware_version == << Send(<<118>>), Expect(<<ESC_CHR>>), ReadValue(8) >>

set_hico == << Send(<<120>>), Expect(<<ESC_CHR, 48>>) >>

set_lowco == << Send(<<121>>), Expect(<<ESC_CHR, 48>>) >>

\* MSR605.get_co_status(): the opcode written is '\x79'
get_co_status == << Send(<<121>>), Expect(<<ESC_CHR>>), ReadValue(1) >>

set_leading_zero(t13, t2) ==
    IF ~(chr_ok(t13) /\ chr_ok(t2)) THEN << Raise("ValueError") >>
    ELSE << Send(<<122, t13, t2>>), ReadStatus >>

check_leading_zero == << Send(<<108>>), Expect(<<ESC_CHR>>), ReadOrd, ReadOrd >>

\* flags with the masks of t2 and t3 exchanged
erase_flags_swapped(t1, t2, t3) ==
    (IF t1 THEN 1 ELSE 0) + (IF t2 THEN 4 ELSE 0) + (IF t3 THEN 2 ELSE 0)

\* flags = (t1 and 1 or 0) | (t2 and 2 or 0) | (t3 and 4 or 0)
erase_flags(t1, t2, t3) ==
    (IF t1 THEN 1 ELSE 0) + (IF t2 THEN 2 ELSE 0) + (IF t3 THEN 4 ELSE 0)

erase_card(t1, t2, t3) == << Send(<<99, erase_flags(t1, t2, t3)>>), ReadStatus >>

select_bpi(t1_density, t2_density, t3_density) ==
    << Send(<<98, IF t2_density THEN 210 ELSE 75>>), ReadStatus,
       Send(<<98, IF t1_density THEN 161 ELSE 160>>), ReadStatus,
       Send(<<98, IF t3_density THEN 193 ELSE 192>>), ReadStatus >>

set_bpc(t1, t2, t3) ==
    IF ~(chr_ok(t1) /\ chr_ok(t2) /\ chr_ok(t3)) THEN << Raise("ValueError") >>
    ELSE << Send(<<111, t1, t2, t3>>), Expect(<<ESC_CHR, 48, t1, t2, t3>>) >>

\* _reverse_bits with '{:b}' for '{:08b}': the digits are not padded to 8
bit_length(b) == IF b < 2 THEN 1 ELSE CHOOSE n \in 1..8 : Pow2(n - 1) <= b /\ b < Pow2(n)

MSR605_reverse_bits_unpadded(s) ==
    [i \in 1..Len(s) |-> ISO_reverse_bits(s[i], bit_length(s[i]))]

\* _reverse_bits with '{:07b}' for '{:08b}': bytes below 128 give 7 digits
MSR605_reverse_bits_7(s) ==
    [i \in 1..Len(s) |-> ISO_reverse_bits(s[i], IF s[i] < 128 THEN 7 ELSE 8)]

\* MSR605._reverse_bits(s): '{:08b}'.format(b)[::-1] read back in base 2
MSR605_reverse_bits(s) == [i \in 1..Len(s) |-> ISO_reverse_bits(s[i], 8)]

\* write_raw's raw_data_block
RECURSIVE track_blocks(_, _)
track_blocks(trks, tn) ==
    IF tn > Len(trks) THEN <<>>
    ELSE <<ESC_CHR, tn, Len(trks[tn])>> \o MSR605_reverse_bits(trks[tn])
         \o track_blocks(trks, tn + 1)

raw_data_block(trks) == <<ESC_CHR, 115>> \o track_blocks(trks, 1) \o <<63, FS_CHR>>

\* MSR605.write_raw(*tracks): chr(len(track)) is a ValueError from 256 bytes on
write_raw(trks) ==
    IF \E tn \in 1..Len(trks) : ~chr_ok(Len(trks[tn])) THEN << Raise("ValueError") >>
    ELSE << Send(<<110>> \o raw_data_block(trks)), ReadStatus >>

set_iso_mode == select_bpi(TRUE, FALSE, TRUE) \o set_bpc(7, 5, 5) \o set_leading_zero(61, 22)

\* MSR605._write_iso_native(*tracks): after the cleaning, the argument
\* raw_data_block of the _send_command call is a name never assigned.
write_iso_native(trks) == << Clean, Raise("NameError"), ReadStatus >>

\* (ss + track + es).encode('iso7811-2-track%d' % (tn + 1)) for each track
encode_tracks(trks) ==
    [tn \in 1..3 |->
        codec_encode(tn, <<TRACK_SENTINELS[tn][1]>> \o trks[tn] \o <<TRACK_SENTINELS[tn][2]>>)]

\* MSR605._write_iso_soft(*tracks): the configuration commands come first,
\* then the cleaning, then the encoding, then write_raw.
write_iso_soft(trks) ==
    set_iso_mode \o << Clean >>
    \o (IF \E tn \in 1..3 : encode_tracks(trks)[tn].exc # "none"
        THEN << Raise("ValueError") >>
        ELSE write_raw([tn \in 1..3 |-> encode_tracks(trks)[tn].enc]))

\* MSR605.write_iso(soft, *tracks)
write_iso(soft, trks) == IF soft THEN write_iso_soft(trks) ELSE write_iso_native(trks)

\* MSR605._read_iso_soft()
read_iso_soft == set_iso_mode \o read_raw \o << DecodeTracks >>

\* data.endswith(end)
endswith(d, end) ==
    Len(d) >= Len(end) /\ SubSeq(d, Len(d) - Len(end) + 1, Len(d)) = end

\* The delimiter each _read_until call of _read_iso_native waits for.
delimiter(at) ==
    CASE at = "track1" -> <<ESC_CHR, 2>>
      [] at = "track2" -> <<ESC_CHR, 3>>
      [] at = "track3" -> <<FS_CHR>>

next_track(at) ==
    CASE at = "track1" -> "track2"
      [] at = "track2" -> "track3"
      [] at = "track3" -> "status"

\* _read_until's result cut by [:-1] whatever the delimiter's length
read_until_turn_cut_one(st) ==
    LET r == read(st, 1)
        nd == st.data \o r.got
    IN  IF endswith(nd, delimiter(st.pc))
        THEN [r EXCEPT !.ret = Append(@, SubSeq(nd, 1, Len(nd) - 1)),
                       !.data = <<>>, !.timeouts = 0, !.pc = next_track(st.pc)]
        ELSE IF r.got # <<>> THEN [r EXCEPT !.data = nd, !.timeouts = 0]
        ELSE IF st.timeouts < MaxTimeouts
             THEN [r EXCEPT !.timeouts = st.timeouts + 1]
             ELSE [r EXCEPT !.log = st.log]

\* MSR605._read_until(end), one turn of its loop: data += self.read(1), and
\* the return to _read_iso_native, which cuts the delimiter off, when data
\* ends with it.  A read that times out adds nothing and the loop goes on; the
\* log stops growing once MaxTimeouts turns in a row have timed out.
read_until_turn(st) ==
    LET r == read(st, 1)
        nd == st.data \o r.got
        end == delimiter(st.pc)
    IN  IF endswith(nd, end)
        THEN [r EXCEPT !.ret = Append(@, SubSeq(nd, 1, Len(nd) - Len(end))),
                       !.data = <<>>, !.timeouts = 0, !.pc = next_track(st.pc)]
        ELSE IF r.got # <<>> THEN [r EXCEPT !.data = nd, !.timeouts = 0]
        ELSE IF st.timeouts < MaxTimeouts
             THEN [r EXCEPT !.timeouts = st.timeouts + 1]
             ELSE [r EXCEPT !.log = st.log]

\* MSR605._read_iso_native(), up to its first _read_until
read_iso_native_head ==
    << Send(<<114>>), Expect(<<ESC_CHR, 115>>), Expect(<<ESC_CHR, 1>>), Stmt("read_until", <<>>, 0) >>

\* MSR605._read_iso_native(), after its last _read_until
read_iso_native_tail(st) == read_status([st EXCEPT !.pc = "idle"])

\* ------------------------------------------------------------ the device's replies
\* Status bytes the device is made to answer: the six of the protocol and others.
StatusBytes == {48, 49, 50, 52, 57, 65, 51, 255}

OK_REPLY == <<ESC_CHR, 48>>

StatusReplies ==
    {<<ESC_CHR, b>> : b \in StatusBytes}
    \cup {<<>>, <<ESC_CHR>>, <<48>>, <<FS_CHR, 48>>, <<ESC_CHR, TIMEOUT, 48>>,
          <<ESC_CHR, 48, ESC_CHR, 48>>}

FewStatusReplies == {OK_REPLY, <<ESC_CHR, 49>>, <<ESC_CHR, 255>>, <<>>}

RECURSIVE SeqsUpTo(_, _)
SeqsUpTo(S, n) ==
    IF n = 0 THEN {<<>>}
    ELSE LET shorter == SeqsUpTo(S, n - 1)
         IN  shorter \cup {Append(q, x) : q \in shorter, x \in S}

Prefixes(s) == {SubSeq(s, 1, k) : k \in 0..Len(s)}

\* s with a pause before its k-th byte, for every k
Paused(s) ==
    {SubSeq(s, 1, k - 1) \o <<TIMEOUT>> \o SubSeq(s, k, Len(s)) : k \in 1..Len(s)}

\* s with its k-th byte replaced by b, for every k
Garbled(s, b) == {[s EXCEPT ![k] = b] : k \in 1..Len(s)}

\* The raw read block as the device sends it.
RECURSIVE RawFrames(_, _)
RawFrames(t, tn) ==
    IF tn > 3 THEN <<>>
    ELSE <<ESC_CHR, tn, Len(t[tn])>> \o t[tn] \o RawFrames(t, tn + 1)

RawReply(t, b) == <<ESC_CHR, 115>> \o RawFrames(t, 1) \o <<63, FS_CHR>> \o <<ESC_CHR, b>>

MAX_TRACK_LEN == 255

LongPayload == [i \in 1..MAX_TRACK_LEN |-> i]

RawPayloads == SeqsUpTo({ESC_CHR, FS_CHR, 63}, MaxLen) \cup {<<65, 66, 67>>, LongPayload}

RawTrackSets ==
    {<<a, bc[1], bc[2]>> : a \in RawPayloads,
         bc \in { << <<>>, <<>> >>, << <<63, FS_CHR>>, <<ESC_CHR, 3>> >>,
                  << LongPayload, <<ESC_CHR>> >> }}

RawTracks0 == << <<65>>, <<ESC_CHR>>, <<>> >>

\* Raw tracks whose third payload goes on, after its first byte, with bytes
\* that read as the end of a block and an OK status: 'A' ? FS ESC 0
RawTracksTail == << <<>>, <<>>, <<65, 63, FS_CHR, ESC_CHR, 48>> >>

\* The block of RawTracksTail sent with a pause after that first payload byte
RawReplyTailPaused ==
    LET r == RawReply(RawTracksTail, 48)
        k == Len(r) - 8
    IN  SubSeq(r, 1, k) \o <<TIMEOUT>> \o SubSeq(r, k + 1, Len(r))

RawReplies ==
    {RawReply(t, 48) : t \in RawTrackSets}
    \cup {RawReply(RawTracks0, b) : b \in StatusBytes}
    \cup Prefixes(RawReply(RawTracks0, 48))
    \cup Paused(RawReply(RawTracks0, 48))
    \cup Garbled(RawReply(RawTracks0, 48), 0)
    \cup {RawReply(RawTracksTail, 48), RawReplyTailPaused}

\* The native ISO read block as the device sends it.
IsoReply(t, b) ==
    <<ESC_CHR, 115, ESC_CHR, 1>> \o t[1] \o <<ESC_CHR, 2>> \o t[2]
    \o <<ESC_CHR, 3>> \o t[3] \o <<FS_CHR>> \o <<ESC_CHR, b>>

IsoBodies == SeqsUpTo({49, 61}, MaxLen)

IsoTexts(tn) ==
    IsoBodies
    \cup {<<TRACK_SENTINELS[tn][1]>> \o body \o <<TRACK_SENTINELS[tn][2]>> : body \in IsoBodies}

IsoTrackSets ==
    {<<a, bc[1], bc[2]>> : a \in IsoTexts(1),
         bc \in { << <<>>, <<59, 63>> >>, << <<59, 63>>, <<59, 63>> >>,
                  << <<59, 49, 63>>, <<59, 61, 63>> >> }}

IsoTracks0 == << <<37, 49, 63>>, <<59, 49, 63>>, <<59, 61, 63>> >>

IsoReplies ==
    {IsoReply(t, 48) : t \in IsoTrackSets}
    \cup {IsoReply(IsoTracks0, b) : b \in StatusBytes}
    \cup Prefixes(IsoReply(IsoTracks0, 48))
    \cup Paused(IsoReply(IsoTracks0, 48))

\* ------------------------------------------------------------ the session's actions
Bools == {TRUE, FALSE}

\* The caller starts operation o with arguments a while the device will answer
\* its commands with the streams sc; st is the session when o has run.
Call(o, a, sc, st) ==
    /\ sess.pc = "idle"
    /\ op' = o
    /\ args' = a
    /\ script' = sc
    /\ sess' = [st EXCEPT !.replies = <<>>, !.got = <<>>]
    /\ UNCHANGED pvars

Run(sc) == Session(sess.inbuf, sc)

DoLed ==
    \E o \in {"all_leds_off", "all_leds_on", "led_green_on", "led_yellow_on", "led_red_on"} :
        Call(o, <<>>, <<>>,
             run(Run(<<>>), CASE o = "all_leds_off" -> all_leds_off
                              [] o = "all_leds_on" -> all_leds_on
                              [] o = "led_green_on" -> led_green_on
                              [] o = "led_yellow_on" -> led_yellow_on
                              [] o = "led_red_on" -> led_red_on))

DoReset == Call("reset", <<>>, <<>>, run(Run(<<>>), reset))

TestReplies == {OK_REPLY, <<ESC_CHR, 121>>, <<ESC_CHR>>, <<>>}

DoSensorTest ==
    \E r \in TestReplies : Call("sensor_test", <<>>, <<r>>, run(Run(<<r>>), sensor_test))

DoCommunicationTest ==
    \E r \in TestReplies :
        Call("communication_test", <<>>, <<r>>, run(Run(<<r>>), communication_test))

DoRamTest ==
    \E r \in TestReplies : Call("ram_test", <<>>, <<r>>, run(Run(<<r>>), ram_test))

\* _read_status called on its own on the stream r, nothing else being buffered
DoReadStatus ==
    \E r \in StatusReplies :
        /\ sess.inbuf = <<>>
        /\ Call("read_status", <<>>, <<r>>, run(Session(r, <<>>), << ReadStatus >>))

DoReadRaw ==
    \E r \in RawReplies : Call("read_raw", <<>>, <<r>>, run(Run(<<r>>), read_raw))

InfoReplies ==
    {<<ESC_CHR, 51, 83>>, <<ESC_CHR, 51>>, <<ESC_CHR, 48>>, <<>>,
     <<ESC_CHR, 82, 69, 86, 63, 49, 46, 48, 50>>, <<ESC_CHR, 61, 22>>}

DoGetDeviceModel ==
    \E r \in InfoReplies :
        Call("get_device_model", <<>>, <<r>>, run(Run(<<r>>), get_device_model))

DoGetFirmwareVersion ==
    \E r \in InfoReplies :
        Call("get_firmware_version", <<>>, <<r>>, run(Run(<<r>>), get_firmware_version))

DoSetHico ==
    \E r \in FewStatusReplies : Call("set_hico", <<>>, <<r>>, run(Run(<<r>>), set_hico))

DoSetLowco ==
    \E r \in FewStatusReplies : Call("set_lowco", <<>>, <<r>>, run(Run(<<r>>), set_lowco))

DoGetCoStatus ==
    \E r \in InfoReplies : Call("get_co_status", <<>>, <<r>>, run(Run(<<r>>), get_co_status))

LeadingZeros == {<<61, 22>>, <<0, 0>>}

DoSetLeadingZero ==
    \E a \in LeadingZeros, r \in StatusReplies :
        /\ (a = <<61, 22>>) \/ (r = OK_REPLY)
        /\ Call("set_leading_zero", a, <<r>>, run(Run(<<r>>), set_leading_zero(a[1], a[2])))

DoCheckLeadingZero ==
    \E r \in InfoReplies :
        Call("check_leading_zero", <<>>, <<r>>, run(Run(<<r>>), check_leading_zero))

DoEraseCard ==
    \E t1 \in Bools, t2 \in Bools, t3 \in Bools, r \in FewStatusReplies :
        /\ (t1 /\ t2 /\ t3) \/ (r = OK_REPLY)
        /\ Call("erase_card", <<t1, t2, t3>>, <<r>>, run(Run(<<r>>), erase_card(t1, t2, t3)))

DoSelectBpi ==
    \E d1 \in Bools, d2 \in Bools, d3 \in Bools,
       r1 \in FewStatusReplies, r2 \in FewStatusReplies, r3 \in FewStatusReplies :
        /\ (<<d1, d2, d3>> = <<TRUE, FALSE, TRUE>>)
           \/ (r1 = OK_REPLY /\ r2 = OK_REPLY /\ r3 = OK_REPLY)
        /\ <<>> \notin {r1, r2, r3}
        /\ Call("select_bpi", <<d1, d2, d3>>, <<r1, r2, r3>>,
                run(Run(<<r1, r2, r3>>), select_bpi(d1, d2, d3)))

Bpcs == {<<7, 5, 5>>, <<8, 8, 8>>}

DoSetBpc ==
    \E a \in Bpcs, r \in {<<ESC_CHR, 48, 7, 5, 5>>, <<ESC_CHR, 48, 8, 8, 8>>,
                          <<ESC_CHR, 48>>, <<ESC_CHR, 65>>, <<>>} :
        Call("set_bpc", a, <<r>>, run(Run(<<r>>), set_bpc(a[1], a[2], a[3])))

\* Raw tracks a caller writes: lengths 0..MaxLen, 255 and (one too many) 256
WriteTrackSets ==
    {<<a, <<>>, <<>> >> : a \in RawPayloads \cup {LongPayload \o <<0>>}}
    \cup {<<a, LongPayload, <<ESC_CHR, 3>> >> : a \in {<<>>, <<FS_CHR>>}}

WriteTracks0 == << <<FS_CHR>>, LongPayload, <<ESC_CHR, 3>> >>

DoWriteRaw ==
    \E t \in WriteTrackSets, r \in FewStatusReplies :
        /\ (t = WriteTracks0) \/ (r = OK_REPLY)
        /\ Call("write_raw", t, <<r>>, run(Run(<<r>>), write_raw(t)))

\* The device's answers to the five commands of _set_iso_mode
ISO_MODE_OK == <<OK_REPLY, OK_REPLY, OK_REPLY, <<ESC_CHR, 48, 7, 5, 5>>, OK_REPLY>>

IsoModeReplies ==
    {ISO_MODE_OK,
     [ISO_MODE_OK EXCEPT ![1] = <<ESC_CHR, 49>>],
     [ISO_MODE_OK EXCEPT ![2] = <<>>],
     [ISO_MODE_OK EXCEPT ![4] = OK_REPLY],
     [ISO_MODE_OK EXCEPT ![5] = <<ESC_CHR, 65>>]}

\* Track texts a caller writes: in the alphabets, with and without sentinels,
\* and with a character of neither alphabet (126, '~')
WriteTexts ==
    {<<a, <<59, 49, 63>>, c>> : a \in {<<37, 49, 63>>, <<49>>, <<>>, <<37, 126, 63>>, <<126>>},
                                c \in {<<>>, <<59, 61, 63>>, <<59, 126, 63>>}}

WriteTexts0 == << <<37, 49, 63>>, <<59, 49, 63>>, <<59, 61, 63>> >>

DoWriteIso ==
    \E soft \in Bools, t \in WriteTexts, m \in IsoModeReplies :
        /\ (m = ISO_MODE_OK) \/ (soft /\ t = WriteTexts0)
        /\ LET sc == IF soft THEN m \o <<OK_REPLY>> ELSE <<OK_REPLY>>
           IN  Call("write_iso", <<soft, t>>, sc, run(Run(sc), write_iso(soft, t)))

\* The raw form of a card's three track texts: the units the codec's encoder
\* gives for each text, the form _write_iso_soft hands to write_raw.
CardRaw(t) == [tn \in 1..3 |-> codec_encode(tn, t[tn]).enc]

\* Cards read both ways: texts of their alphabets, sentinels included
CardTexts == {IsoTracks0, << <<37, 63>>, <<59, 63>>, <<59, 63>> >>}

\* Raw blocks the device answers a soft ISO read with
SoftReplies ==
    {RawReply(t, 48) : t \in {RawTracks0, << <<>>, <<>>, <<>> >>,
                              << <<69, 2, 31>>, <<22, 2, 31>>, <<22, 31>> >>}}
    \cup {RawReply(CardRaw(t), 48) : t \in CardTexts}
    \cup {RawReply(RawTracks0, 49), <<ESC_CHR, 115, ESC_CHR, 1>>}

DoReadIsoSoft ==
    \E m \in IsoModeReplies, r \in SoftReplies :
        /\ (m = ISO_MODE_OK) \/ (r = RawReply(RawTracks0, 48))
        /\ Call("read_iso_soft", <<TRUE>>, m \o <<r>>, run(Run(m \o <<r>>), read_iso_soft))

\* read_iso(soft=False): _read_iso_native up to its first _read_until
ReadIsoNativeBegin ==
    \E r \in IsoReplies :
        Call("read_iso_native", <<FALSE>>, <<r>>, run(Run(<<r>>), read_iso_native_head))

\* One turn of the _read_until loop that _read_iso_native is in
ReadUntilTurn ==
    /\ sess.pc \in {"track1", "track2", "track3"}
    /\ sess' = [read_until_turn(sess) EXCEPT !.got = <<>>]
    /\ UNCHANGED <<op, args, script>>
    /\ UNCHANGED pvars

\* _read_iso_native after the third _read_until: _read_status and the return
ReadIsoNativeEnd ==
    /\ sess.pc = "status"
    /\ sess' = [read_iso_native_tail(sess) EXCEPT !.got = <<>>]
    /\ UNCHANGED <<op, args, script>>
    /\ UNCHANGED pvars

\* After MSR605(dev, test=False): reset() has been sent, nothing is buffered;
\* no pure function is being applied.
Init ==
    /\ sess = Session(<<>>, <<>>)
    /\ op = "none"
    /\ args = <<>>
    /\ script = <<>>
    /\ fn = "none"
    /\ xin = <<>>
    /\ xmid = <<>>
    /\ xout = <<>>
    /\ xpc = "new"

Next ==
    \/ DoLed
    \/ DoReset
    \/ DoSensorTest
    \/ DoCommunicationTest
    \/ DoRamTest
    \/ DoReadStatus
    \/ DoReadRaw
    \/ DoGetDeviceModel
    \/ DoGetFirmwareVersion
    \/ DoSetHico
    \/ DoSetLowco
    \/ DoGetCoStatus
    \/ DoSetLeadingZero
    \/ DoCheckLeadingZero
    \/ DoEraseCard
    \/ DoSelectBpi
    \/ DoSetBpc
    \/ DoWriteRaw
    \/ DoWriteIso
    \/ DoReadIsoSoft
    \/ ReadIsoNativeBegin
    \/ ReadUntilTurn
    \/ ReadIsoNativeEnd

Spec == Init /\ [][Next]_vars

\* ------------------------------------------------------------ the pure functions
\* The codec names of ISO7811_2.codec_search and the track each is used for
CodecNames == {"iso7811-2-track1", "iso7811-2-track2", "iso7811-2-track3"}

track_of(name) ==
    CASE name = "iso7811-2-track1" -> 1
      [] name = "iso7811-2-track2" -> 2
      [] name = "iso7811-2-track3" -> 3

\* '1234567890123456'
Digits16 == <<49, 50, 51, 52, 53, 54, 55, 56, 57, 48, 49, 50, 51, 52, 53, 54>>

\* Track texts: every text of up to MaxLen characters of the 5-bit alphabet,
\* every single character of the 7-bit alphabet and short texts over a few,
\* and texts with a character of neither ('~', and 'a' for tracks 2 and 3).
CodecTexts(tn) ==
    IF tn = 1
    THEN SeqsUpTo(Range(TRACK1_CHARS), 1) \cup SeqsUpTo({32, 37, 63, 65, 95}, MaxLen + 1)
         \cup {<<126>>, <<65, 126>>}
    ELSE SeqsUpTo(Range(TRACK23_CHARS), IF tn = 2 THEN MaxLen ELSE 1)
         \cup {Digits16, <<126>>, <<49, 97>>}

\* Raw tracks to frame: every single byte value, short tracks over a few
\* byte values, and the lengths 0 and 255
FrameTrackSets ==
    {<< <<b>>, <<>>, <<>> >> : b \in 0..255}
    \cup {<<a, bc[1], bc[2]>> : a \in SeqsUpTo({0, 1, ESC_CHR, 128, 255}, MaxLen),
              bc \in { << <<>>, <<>> >>, << <<63, FS_CHR>>, <<ESC_CHR, 3>> >>,
                       << LongPayload, <<>> >> }}
    \cup {<<LongPayload, LongPayload, LongPayload>>, <<LongPayload \o <<0>>, <<>>, <<>> >>}

\* Byte strings to reverse: every single byte value, short strings over a few
\* byte values, and a long one
ReverseInputs ==
    {<<b>> : b \in 0..255} \cup SeqsUpTo({0, 1, ESC_CHR, 128, 255}, MaxLen) \cup {LongPayload}

PureInit ==
    /\ sess = Session(<<>>, <<>>)
    /\ op = "none"
    /\ args = <<>>
    /\ script = <<>>
    /\ fn \in CodecNames \cup {"frame", "reverse"}
    /\ xin \in CASE fn = "frame" -> FrameTrackSets
               [] fn = "reverse" -> ReverseInputs
               [] OTHER -> CodecTexts(track_of(fn))
    /\ xmid = <<>>
    /\ xout = <<>>
    /\ xpc = "new"

\* text.encode(name)
Encode ==
    /\ fn \in CodecNames
    /\ xpc = "new"
    /\ LET r == codec_encode(track_of(fn), xin)
       IN  /\ xmid' = r.enc
           /\ xpc' = IF r.exc = "none" THEN "encoded" ELSE r.exc
    /\ UNCHANGED <<fn, xin, xout>>
    /\ UNCHANGED svars

\* encoded.decode(name)
Decode ==
    /\ fn \in CodecNames
    /\ xpc = "encoded"
    /\ xout' = codec_decode(track_of(fn), xmid)
    /\ xpc' = "decoded"
    /\ UNCHANGED <<fn, xin, xmid>>
    /\ UNCHANGED svars

\* encoded[:1].decode(name): the unit of the first character alone
DecodeUnit ==
    /\ fn \in CodecNames
    /\ xpc = "encoded"
    /\ Len(xin) >= 1
    /\ xout' = codec_decode(track_of(fn), SubSeq(xmid, 1, 1))
    /\ xpc' = "unit_decoded"
    /\ UNCHANGED <<fn, xin, xmid>>
    /\ UNCHANGED svars

\* write_raw's raw_data_block for the three tracks
BuildBlock ==
    /\ fn = "frame"
    /\ xpc = "new"
    /\ LET w == write_raw(xin)
       IN  IF w[1].i = "send_command"
           THEN xmid' = Tail(w[1].b) /\ xpc' = "encoded"
           ELSE xmid' = <<>> /\ xpc' = w[1].i
    /\ UNCHANGED <<fn, xin, xout>>
    /\ UNCHANGED svars

\* read_raw parsing the block, followed by an OK status, as the device's reply
ParseBlock ==
    /\ fn = "frame"
    /\ xpc = "encoded"
    /\ LET r == run(Session(<<>>, << xmid \o OK_REPLY >>), read_raw)
       IN  /\ xout' = r.ret
           /\ xpc' = IF r.exc = "none" THEN "decoded" ELSE r.exc
    /\ UNCHANGED <<fn, xin, xmid>>
    /\ UNCHANGED svars

\* self._reverse_bits(s)
Reverse ==
    /\ fn = "reverse"
    /\ xpc = "new"
    /\ xmid' = MSR605_reverse_bits(xin)
    /\ xpc' = "reversed"
    /\ UNCHANGED <<fn, xin, xout>>
    /\ UNCHANGED svars

\* self._reverse_bits applied to its own result
ReverseAgain ==
    /\ fn = "reverse"
    /\ xpc = "reversed"
    /\ xout' = MSR605_reverse_bits(xmid)
    /\ xpc' = "reversed_twice"
    /\ UNCHANGED <<fn, xin, xmid>>
    /\ UNCHANGED svars

PureNext ==
    \/ Encode
    \/ Decode
    \/ DecodeUnit
    \/ BuildBlock
    \/ ParseBlock
    \/ Reverse
    \/ ReverseAgain

SpecPure == PureInit /\ [][PureNext]_vars

\* ------------------------------------------------------------ properties
Idle == sess.pc = "idle"

WriteEvents == {i \in 1..Len(sess.log) : sess.log[i].k = "write"}

Alphabet(tn) == IF tn = 1 THEN Range(TRACK1_CHARS) ELSE Range(TRACK23_CHARS)

HasForeignChar(t) == \E tn \in 1..3 : \E i \in 1..Len(t[tn]) : t[tn][i] \notin Alphabet(tn)

\* C1: write_iso in soft mode, given a track text with a character outside its
\* track's alphabet, raises the not-in-alphabet error (str.index's ValueError)
\* before any byte has been written to the transport.
C1_AlphabetErrorBeforeAnyWrite ==
    (op = "write_iso" /\ args[1] /\ HasForeignChar(args[2]))
        => (sess.exc = "ValueError" /\ WriteEvents = {})

\* C2: for every character c of either alphabet, decoding the one unit that
\* encode produces for c gives back c.
C2_UnitRoundTrip ==
    (fn \in CodecNames /\ xpc = "unit_decoded" /\ Len(xin) = 1) => xout = xin

\* C3: for every text s over the track-2/3 alphabet, decode_track23 of the whole
\* output of encode_track23(s) is s.
C3_Track23RoundTrip ==
    (fn \in {"iso7811-2-track2", "iso7811-2-track3"} /\ xpc = "decoded") => xout = xin

\* C4 as stated: the raw block write_raw builds for three tracks of 0..255 bytes,
\* parsed by read_raw, gives each track's length and bytes back.
C4_FrameRoundTrip ==
    (fn = "frame" /\ xpc \notin {"new", "encoded"} /\ \A tn \in 1..3 : Len(xin[tn]) <= 255)
        => (xpc = "decoded" /\ xout = xin)

\* C4 as amended: the block parses, each track comes back with its length, and
\* every byte comes back with its bits in reverse order: bit i is the original's
\* bit 7 - i.
C4_FrameRoundTripReversed ==
    (fn = "frame" /\ xpc \notin {"new", "encoded"} /\ \A tn \in 1..3 : Len(xin[tn]) <= 255)
        => /\ xpc = "decoded"
           /\ Len(xout) = 3
           /\ \A tn \in 1..3 :
                /\ Len(xout[tn]) = Len(xin[tn])
                /\ \A j \in 1..Len(xin[tn]) : \A i \in 0..7 :
                       Bit(xout[tn][j], i) = Bit(xin[tn][j], 7 - i)

C4_Witness ==
    /\ fn = "frame"
    /\ xpc = "decoded"
    /\ Len(xin[1]) = 255
    /\ xout[1][1] = 128
    /\ xout # xin

\* The status bytes of the protocol: OK and the five errors
KnownStatus == {48, 49, 50, 52, 57, 65}

\* C5: _read_status never returns normally on a reply ESC + b with b outside
\* the six status bytes of the protocol, so no operation completes on one.
C5_UnknownStatusNeverReturned ==
    \A b \in 0..255 : sess.status = <<b>> => b \in KnownStatus

\* C6: _read_status returns on ESC 0x30, raises the error of the table on ESC
\* 0x31, 0x32, 0x34, 0x39, 0x41, and on a first byte other than ESC raises
\* ReadError having read that one byte only.
C6_StatusMapping ==
    (op = "read_status" /\ script[1] # <<>>)
        => LET r == script[1]
               b == IF Len(r) >= 2 THEN r[2] ELSE TIMEOUT
           IN  IF r[1] # ESC_CHR
               THEN /\ sess.exc = "ReadError"
                    /\ Len(sess.log) = 1
                    /\ sess.log[1].n = 1
               ELSE /\ b = 48 => (sess.exc = "none" /\ sess.status = <<48>>)
                    /\ b = 49 => sess.exc = "ReadWriteError"
                    /\ b = 50 => sess.exc = "CommandFormatError"
                    /\ b = 52 => sess.exc = "InvalidCommand"
                    /\ b = 57 => sess.exc = "InvalidCardSwipeForWrite"
                    /\ b = 65 => sess.exc = "SetError"

C6_Witness ==
    /\ op = "read_status"
    /\ script = << <<ESC_CHR, 52>> >>
    /\ sess.exc = "InvalidCommand"

\* C7: an _expect that reads something else than expected is the last transport
\* call of its operation, which ends in ReadError; and no operation writes the
\* same command twice.
C7_MismatchIsFatalNoRetry ==
    /\ \A i \in 1..Len(sess.log) :
           (sess.log[i].k = "expect" /\ sess.log[i].b # sess.log[i].e)
               => (i = Len(sess.log) /\ sess.exc = "ReadError" /\ Idle)
    /\ \A i \in WriteEvents : \A j \in WriteEvents :
           i < j => sess.log[i].b # sess.log[j].b

C7_Witness ==
    /\ op = "read_raw"
    /\ sess.exc = "ReadError"
    /\ Len(sess.log) = 7
    /\ sess.log[7].k = "expect"
    /\ sess.log[7].b # sess.log[7].e
    /\ sess.inbuf # <<>>

\* C8: with nothing more to arrive, _read_until does not go on reading: it
\* gives up, with a timeout error, before MaxTimeouts reads in a row timed out.
C8_ReadUntilGivesUp ==
    (sess.pc \in {"track1", "track2", "track3"} /\ sess.inbuf = <<>>)
        => sess.timeouts < MaxTimeouts

\* C9: read_raw, given a well-formed reply with an OK status, returns exactly
\* the three payloads in track order.
C9_ReadRawReturnsPayloads ==
    \A t \in RawTrackSets :
        (op = "read_raw" /\ script = << RawReply(t, 48) >>)
            => (sess.exc = "none" /\ sess.ret = t)

C9_Witness ==
    /\ op = "read_raw"
    /\ script = << RawReply(<< <<>>, LongPayload, <<ESC_CHR>> >>, 48) >>
    /\ sess.ret = << <<>>, LongPayload, <<ESC_CHR>> >>

\* The text with its track's start sentinel, if it starts with it, and end
\* sentinel, if it ends with it, removed
Stripped(tn, x) ==
    LET lo == IF x # <<>> /\ x[1] = TRACK_SENTINELS[tn][1] THEN 2 ELSE 1
        hi == IF Len(x) >= lo /\ x[Len(x)] = TRACK_SENTINELS[tn][2] THEN Len(x) - 1 ELSE Len(x)
    IN  SubSeq(x, lo, hi)

\* C10 as stated: native read_iso, given a well-formed reply with an OK status,
\* returns the three texts with their sentinels removed.
C10_NativeReadStripsSentinels ==
    \A t \in IsoTrackSets :
        (op = "read_iso_native" /\ script = << IsoReply(t, 48) >> /\ Idle)
            => (sess.exc = "none" /\ sess.ret = [tn \in 1..3 |-> Stripped(tn, t[tn])])

\* C10 as amended: it returns the three texts as the device sent them, sentinels
\* included, and no marker or terminator byte is left in them.
C10_NativeReadReturnsTexts ==
    \A t \in IsoTrackSets :
        (op = "read_iso_native" /\ script = << IsoReply(t, 48) >> /\ Idle)
            => /\ sess.exc = "none"
               /\ sess.ret = t
               /\ \A tn \in 1..3 : Range(sess.ret[tn]) \cap {ESC_CHR, FS_CHR} = {}

C10_Witness ==
    /\ op = "read_iso_native"
    /\ Idle
    /\ script = << IsoReply(IsoTracks0, 48) >>
    /\ sess.ret = IsoTracks0

\* The ISO data block of the claim for three texts: ESC s, then per track
\* ESC + track number + the text without its sentinels, then ? FS
IsoDataBlock(t) ==
    <<ESC_CHR, 115>>
    \o <<ESC_CHR, 1>> \o Stripped(1, t[1])
    \o <<ESC_CHR, 2>> \o Stripped(2, t[2])
    \o <<ESC_CHR, 3>> \o Stripped(3, t[3])
    \o <<63, FS_CHR>>

\* C11: native write_iso of three texts within their alphabets writes exactly
\* one command, ESC 0x77 followed by the ISO data block of the stripped texts,
\* then reads exactly one status, and ends without an exception on an OK status.
C11_NativeWriteFraming ==
    (op = "write_iso" /\ ~args[1] /\ ~HasForeignChar(args[2]) /\ script = <<OK_REPLY>>)
        => /\ sess.exc = "none"
           /\ Cardinality(WriteEvents) = 1
           /\ \A i \in WriteEvents :
                  sess.log[i].b = <<ESC_CHR, 119>> \o IsoDataBlock(args[2])
           /\ Cardinality({i \in 1..Len(sess.log) : sess.log[i].k = "expect"}) = 1
           /\ sess.status = <<48>>

\* The same card swiped for a native and then a soft ISO read: the device
\* answers the first with the card's texts and the second with their raw form.
SameCard(native, soft) ==
    \E t \in CardTexts :
        /\ native = << IsoReply(t, 48) >>
        /\ soft = ISO_MODE_OK \o << RawReply(CardRaw(t), 48) >>

\* C12: a native ISO read and a soft ISO read of the same card, both ending
\* without an exception, return the same text for each of the three tracks.
C12_SoftEqualsNative ==
    [][(/\ op = "read_iso_native" /\ Idle /\ sess.exc = "none"
        /\ op' = "read_iso_soft" /\ sess'.exc = "none"
        /\ SameCard(script, script'))
          => \A tn \in 1..3 : sess'.ret[tn] = sess.ret[tn]]_vars

RECURSIVE Flatten(_)
Flatten(ss) == IF ss = <<>> THEN <<>> ELSE Head(ss) \o Flatten(Tail(ss))

\* The bytes the reads of the operation returned, in order
RECURSIVE ReadBytes(_)
ReadBytes(log) ==
    IF log = <<>> THEN <<>>
    ELSE ReadBytes(SubSeq(log, 1, Len(log) - 1))
         \o (IF log[Len(log)].k \in {"read", "expect"} THEN log[Len(log)].b ELSE <<>>)

\* The device answers every command of operation o correctly: sc holds the
\* reply of the protocol to each command, an OK status where there is one,
\* sent without a pause; the arguments a are ones the protocol can carry.
Answered(o, a, sc) ==
    CASE o \in {"all_leds_off", "all_leds_on", "led_green_on", "led_yellow_on",
                "led_red_on", "reset"} -> sc = <<>>
      [] o \in {"sensor_test", "ram_test"} -> sc = <<OK_REPLY>>
      [] o = "communication_test" -> sc = << <<ESC_CHR, 121>> >>
      [] o = "read_raw" ->
             \E t \in RawTrackSets \cup {RawTracksTail} : sc = << RawReply(t, 48) >>
      [] o = "get_device_model" -> sc = << <<ESC_CHR, 51, 83>> >>
      [] o = "get_firmware_version" -> sc = << <<ESC_CHR, 82, 69, 86, 63, 49, 46, 48, 50>> >>
      [] o \in {"set_hico", "set_lowco", "get_co_status", "set_leading_zero", "erase_card"} ->
             sc = <<OK_REPLY>>
      [] o = "check_leading_zero" -> sc = << <<ESC_CHR, 61, 22>> >>
      [] o = "select_bpi" -> sc = <<OK_REPLY, OK_REPLY, OK_REPLY>>
      [] o = "set_bpc" -> sc = << <<ESC_CHR, 48>> \o a >>
      [] o = "write_raw" -> sc = <<OK_REPLY>> /\ \A tn \in 1..3 : Len(a[tn]) <= MAX_TRACK_LEN
      [] o = "write_iso" ->
             /\ ~HasForeignChar(a[2])
             /\ sc = IF a[1] THEN ISO_MODE_OK \o <<OK_REPLY>> ELSE <<OK_REPLY>>
      [] o = "read_iso_soft" -> \E r \in SoftReplies : sc = ISO_MODE_OK \o <<r>> /\ r[Len(r)] = 48
      [] o = "read_iso_native" -> \E t \in IsoTrackSets : sc = << IsoReply(t, 48) >>
      [] OTHER -> FALSE

\* flushInput comes before the first write of the operation
ClearsBeforeWriting(log) ==
    \A i \in 1..Len(log) :
        log[i].k = "write" => \E j \in 1..(i - 1) : log[j].k = "flushInput"

\* C13: when an operation has ended in an error with reply bytes left unread in
\* the input buffer, the next operation clears the buffer before it writes, its
\* reads return the bytes of its own replies only, and it ends without an
\* exception if the device answers its commands correctly.
C13_UsableAfterError ==
    [][(/\ Idle /\ sess.exc # "none" /\ sess.inbuf # <<>>
        /\ Idle' /\ Answered(op', args', script'))
          => /\ ClearsBeforeWriting(sess'.log)
             /\ ReadBytes(sess'.log) = Flatten(script')
             /\ sess'.exc = "none"]_vars

\* Bits per encoded unit of the codec named: 7 for track 1, 5 for tracks 2 and 3
UnitBits(name) == IF track_of(name) = 1 THEN 7 ELSE 5

\* The text has been encoded without an exception
Encoded == fn \in CodecNames /\ xpc \in {"encoded", "decoded", "unit_decoded"}

\* C14: every unit encode outputs, the trailing checksum unit included, has an
\* odd number of 1-bits in its data and parity bits, and is below 2^7 (track 1)
\* or 2^5 (tracks 2 and 3), so the higher bits of its byte are zero.
C14_UnitsOddParityAndWidth ==
    Encoded =>
        \A j \in 1..Len(xmid) :
            /\ xmid[j] \in 0..(Pow2(UnitBits(fn)) - 1)
            /\ Cardinality({i \in 0..(UnitBits(fn) - 1) : Bit(xmid[j], i) = 1}) % 2 = 1

C14_Witness ==
    /\ fn = "iso7811-2-track2"
    /\ xpc = "encoded"
    /\ xin = Digits16
    /\ xmid[1] = 1
    /\ xmid[3] = 19
    /\ Len(xmid) = 17

\* The symbol index of character c: its 0-based place in the track's alphabet
SymbolIndex(name, c) ==
    LET mapping == IF track_of(name) = 1 THEN TRACK1_CHARS ELSE TRACK23_CHARS
    IN  (CHOOSE k \in 1..Len(mapping) : mapping[k] = c) - 1

\* C15: encode of n characters outputs n + 1 units, and each data bit of the
\* last unit is the exclusive-OR of that bit of the n symbol indices (0 for
\* the empty text).
C15_TrailingLrcUnit ==
    Encoded =>
        /\ Len(xmid) = Len(xin) + 1
        /\ \A i \in 0..(UnitBits(fn) - 2) :
               Bit(xmid[Len(xmid)], i)
                   = Cardinality({j \in 1..Len(xin) : Bit(SymbolIndex(fn, xin[j]), i) = 1}) % 2

C15_Witness ==
    /\ fn = "iso7811-2-track1"
    /\ xpc = "encoded"
    /\ xin = <<37, 65, 63>>
    /\ xmid = <<69, 97, 31, 59>>

\* C16: erase_card(t1, t2, t3) writes exactly one command, ESC 0x63 b, where
\* bit 0 of b is t1, bit 1 is t2, bit 2 is t3 and no other bit is set, and then
\* makes exactly one status read: the ESC and, when that matched, one byte.
C16_EraseCommand ==
    (op = "erase_card") =>
        /\ Cardinality(WriteEvents) = 1
        /\ Len(sess.log) \in {3, 4}
        /\ sess.log[1].k = "flushInput"
        /\ sess.log[2].k = "write"
        /\ Len(sess.log[2].b) = 3
        /\ sess.log[2].b[1] = ESC_CHR
        /\ sess.log[2].b[2] = 99
        /\ sess.log[2].b[3] \in 0..7
        /\ \A i \in 1..3 : (Bit(sess.log[2].b[3], i - 1) = 1) <=> args[i]
        /\ sess.log[3].k = "expect" /\ sess.log[3].e = <<ESC_CHR>>
        /\ Len(sess.log) = 3 <=> sess.log[3].b # <<ESC_CHR>>
        /\ Len(sess.log) = 4 => (sess.log[4].k = "read" /\ sess.log[4].n = 1)

C16_Witness ==
    /\ op = "erase_card"
    /\ args = <<FALSE, TRUE, TRUE>>
    /\ sess.log[2].b = <<ESC_CHR, 99, 6>>
    /\ sess.status = <<48>>

\* C17: MSR605._reverse_bits keeps the number of bytes, bit i of each byte of
\* its result is bit 7 - i of the input's byte, and applied to its own result
\* it gives the input back.
C17_ReverseBitsInvolution ==
    (fn = "reverse" /\ xpc \in {"reversed", "reversed_twice"}) =>
        /\ Len(xmid) = Len(xin)
        /\ \A j \in 1..Len(xin) :
               /\ xmid[j] \in 0..255
               /\ \A i \in 0..7 : Bit(xmid[j], i) = Bit(xin[j], 7 - i)
        /\ xpc = "reversed_twice" => xout = xin

C17_Witness ==
    /\ fn = "reverse"
    /\ xpc = "reversed_twice"
    /\ xin = <<1, ESC_CHR>>
    /\ xmid = <<128, 216>>
    /\ xout = <<1, ESC_CHR>>

\* The length byte read_raw read for track tn: the read that follows the
\* track's marker in the transport log of read_raw
AnnouncedLength(log, tn) == log[3 * tn + 2].b[1]

\* C18: when read_raw returns, each returned track has as many bytes as the
\* length byte read for it, also when the read of the payload timed out short
\* and the rest of the payload arrived later.
C18_TrackLengthAsAnnounced ==
    (op = "read_raw" /\ sess.exc = "none") =>
        \A tn \in 1..3 : Len(sess.ret[tn]) = AnnouncedLength(sess.log, tn)

\* The opcode of a written command: the byte after ESC
Opcode(e) == e.b[2]

\* C19: a command with a coercivity-setting opcode (0x78 set Hi-Co, 0x79 set
\* Lo-Co) is written by set_hico and set_lowco only; no query operation
\* writes one.
C19_CoercivityOpcodesOnlyFromSetters ==
    \A i \in WriteEvents :
        Opcode(sess.log[i]) \in {120, 121} => op \in {"set_hico", "set_lowco"}

NotPause(x) == x # TIMEOUT

\* The replies as sent, the pauses between their bytes left out
Unpaused(sc) == [k \in 1..Len(sc) |-> SelectSeq(sc[k], NotPause)]

\* The place in the log of the k-th write; past the end if there is none
WriteAt(log, k) ==
    LET writes == {i \in 1..Len(log) : log[i].k = "write"}
    IN  IF k > Cardinality(writes) THEN Len(log) + 1
        ELSE CHOOSE i \in writes : Cardinality({j \in writes : j <= i}) = k

\* The bytes read between the k-th write and the next one
ReadsAfterWrite(log, k) ==
    ReadBytes(SubSeq(log, WriteAt(log, k) + 1, WriteAt(log, k + 1) - 1))

\* Operations that end with a status read
StatusOps ==
    {"read_raw", "set_leading_zero", "erase_card", "select_bpi", "write_raw",
     "write_iso", "read_iso_soft", "read_iso_native"}

\* Operation o has returned in session st without an exception, with status
\* OK if it read one, the device having answered it by the protocol
Succeeded(o, a, sc, st) ==
    /\ st.pc = "idle"
    /\ st.exc = "none"
    /\ o \in StatusOps => st.status = <<48>>
    /\ Answered(o, a, Unpaused(sc))

\* C20: in a sequence of operations that each succeed, every command is written
\* after every byte of the reply to the command before it has been read, be
\* that command one of the same operation or the last of the operation before;
\* and reset and the LED commands make no read.
C20_NoOverlappingRequests ==
    [][/\ Succeeded(op', args', script', sess') =>
            /\ \A k \in 1..(Len(script') - 1) :
                   ReadsAfterWrite(sess'.log, k) = Unpaused(script')[k]
            /\ script' = <<>> => ReadBytes(sess'.log) = <<>>
       /\ (/\ Succeeded(op, args, script, sess)
           /\ Succeeded(op', args', script', sess')
           /\ \E i \in 1..Len(sess'.log) : sess'.log[i].k = "write")
            => /\ sess.inbuf = <<>>
               /\ script # <<>> =>
                      ReadsAfterWrite(sess.log, Len(script)) = Unpaused(script)[Len(script)]]_vars

====
